---- MODULE Spec2Model ----
(***************************************************************************)
(* Lazy Scholar CLI (src/scholar.py): the request governor (rate-limit     *)
(* ledger, transport wrapper), the aggregator and main().                  *)
(*                                                                         *)
(* Three specifications share this module:                                 *)
(*   Spec      one invocation of main() against a ledger file on disk;     *)
(*   SpecHttp  one call of _get / _post (the retry loop);                  *)
(*   SpecAgg   one pass of aggregate_paper_data over the source fetchers.  *)
(* Time is in whole seconds; time.time() is an input of the handler that   *)
(* reads it, never earlier than the previous reading.                      *)
(***************************************************************************)
EXTENDS Integers, Sequences, FiniteSets, TLC

\* ---------------------------------------------------------------- constants
MIN_INTERVAL_SECONDS == 5
MAX_REQUESTS_PER_HOUR == 10
window == 3600
retries == 2             \* _get / _post: retries=2
BackoffMin == 3          \* random.uniform(3, 8) after a 429
BackoffMax == 8
RetrySleep == 2          \* time.sleep(2) after an exception

\* ------------------------------------------------------------------- bounds
MaxLedger == 11          \* longest ledger found on disk at start
MaxInputs == 3           \* positional inputs on the command line
MaxLatency == 1          \* seconds between two consecutive clock readings
MaxOversleep == 1        \* time.sleep may return this much late
T0 == 10000              \* clock reading when check_rate_limit starts
MaxPool == 2             \* proxies listed in the proxy preference file
MaxText == 4             \* tokens in a text handed to extract_doi
MaxFields == 2           \* fields set in a report handed to to_markdown
MaxRuns == 3             \* invocations run one after the other on one ledger

\* ------------------------------------------------------------ small helpers
None == "None"

Range(s) == {s[k] : k \in 1..Len(s)}

Last(s) == s[Len(s)]

Count(s, e) == Cardinality({k \in 1..Len(s) : s[k] = e})

RECURSIVE SetMax(_)
SetMax(S) == LET x == CHOOSE y \in S : TRUE
             IN IF S = {x} THEN x
                ELSE LET m == SetMax(S \ {x}) IN IF x > m THEN x ELSE m

RECURSIVE SetMin(_)
SetMin(S) == LET x == CHOOSE y \in S : TRUE
             IN IF S = {x} THEN x
                ELSE LET m == SetMin(S \ {x}) IN IF x < m THEN x ELSE m

\* -------------------------------------------------------- the ledger on disk
\* RATE_LIMIT_FILE: what the file holds when it is read.
\*   missing     the file does not exist
\*   unreadable  read_text raises OSError
\*   badjson     json.loads raises JSONDecodeError
\*   list        a JSON list of numbers (what record_request writes)
\*   mapping     a non-empty JSON mapping
\*   strlist     a non-empty JSON list of non-numbers
\*   scalar      a JSON number or null
FileKinds == {"missing", "unreadable", "badjson", "list", "mapping", "strlist", "scalar"}

CorruptKinds == FileKinds \ {"list"}

Ages == {0, 2, 5}        \* age of the newest timestamp at start
Spacings == {5, 400}     \* seconds between consecutive timestamps

\* n timestamps written by earlier invocations, oldest first.
Ledger(n, age, gap) == [k \in 1..n |-> T0 - age - (n - k) * gap]

InitialFiles ==
    {[kind |-> k, ts |-> <<>>] : k \in CorruptKinds}
    \cup {[kind |-> "list", ts |-> Ledger(n, a, g)] :
              n \in 0..MaxLedger, a \in Ages, g \in Spacings}

\* json.loads(RATE_LIMIT_FILE.read_text()) with the except clause of the
\* callers: the list that `timestamps` is bound to when it is a list of numbers.
LoadTimestamps(f) == IF f.kind = "list" THEN f.ts ELSE <<>>

\* The comprehension `[ts for ts in timestamps if now - ts < window]` raises
\* TypeError when timestamps is not an iterable of numbers.
PruneRaises(f) == f.kind \in {"mapping", "strlist", "scalar"}

PruneInclusive(timestamps, now) == SelectSeq(timestamps, LAMBDA ts : now - ts <= window)

Prune(timestamps, now) == SelectSeq(timestamps, LAMBDA ts : now - ts < window)

\* The sleep asked for by check_rate_limit (0: no sleep).
WaitNewestMin(timestamps, now) ==
    IF timestamps # <<>> /\ now - SetMin(Range(timestamps)) < MIN_INTERVAL_SECONDS
    THEN MIN_INTERVAL_SECONDS - (now - SetMin(Range(timestamps)))
    ELSE 0

Wait(timestamps, now) ==
    IF timestamps # <<>> /\ now - SetMax(Range(timestamps)) < MIN_INTERVAL_SECONDS
    THEN MIN_INTERVAL_SECONDS - (now - SetMax(Range(timestamps)))
    ELSE 0

\* ------------------------------------------------------------ command line
Ids == {"10.1/a", "10.1/A"}

NoDoi == "NoDoi"         \* resolve_input returned None for this input

\* --title: absent, search_crossref returned [], the best hit has no DOI,
\* or the best hit carries a DOI.
TitleOutcomes == {"none", "empty", "nodoi"} \cup Ids

InputLists == UNION {[1..n -> Ids \cup {NoDoi}] : n \in 0..MaxInputs}

\* The identifiers main() collects, in order, before deduplication.
Resolved(a) ==
    (IF a.title \in Ids THEN <<a.title>> ELSE <<>>)
        \o SelectSeq(a.inputs, LAMBDA d : d # NoDoi)

Lower(s) == IF s = "10.1/A" THEN "10.1/a" ELSE s

RECURSIVE UniqueLower(_, _, _)
UniqueLower(ds, seen, unique) ==
    IF ds = <<>> THEN unique
    ELSE IF Lower(Head(ds)) \notin seen
         THEN UniqueLower(Tail(ds), seen \cup {Lower(Head(ds))}, Append(unique, Head(ds)))
         ELSE UniqueLower(Tail(ds), seen, unique)

RECURSIVE Unique(_, _, _)
Unique(ds, seen, unique) ==
    IF ds = <<>> THEN unique
    ELSE IF Head(ds) \notin seen
         THEN Unique(Tail(ds), seen \cup {Head(ds)}, Append(unique, Head(ds)))
         ELSE Unique(Tail(ds), seen, unique)

\* ---------------------------------------------------------------- variables
VARIABLES
    file,       \* RATE_LIMIT_FILE
    file0,      \* RATE_LIMIT_FILE as it was when the invocation started
    clock,      \* last reading of time.time()
    pc,         \* position in main()
    args,       \* parsed command line, with what each input resolves to
    dois,       \* main(): dois
    reports,    \* main(): the identifiers of the reports made so far
    trace,      \* calls made by main(), in order
    slept,      \* seconds check_rate_limit asked time.sleep for
    outcome,    \* how the invocation ended ("running" until then)
    exitCode    \* process exit status (-1 while running)

mainVars == <<file, file0, clock, pc, args, dois, reports, trace, slept, outcome, exitCode>>

VARIABLES
    hpc,        \* _get / _post: "idle", "loop" (in the for loop) or "returned"
    method,     \* "get" (_get) or "post" (_post)
    attempt,    \* the loop variable `attempt`
    hlog,       \* one entry per attempt: what happened and the sleep that followed
    hresult,    \* the value returned
    proxyFile,  \* ~/.scholar-proxies.json
    proxyForce  \* _PROXY_FORCE

httpVars == <<hpc, method, attempt, hlog, hresult, proxyFile, proxyForce>>

VARIABLES
    apc,        \* aggregate_paper_data: the block to run next
    adoi,       \* aggregate_paper_data: doi
    report,     \* aggregate_paper_data: report
    ss,         \* aggregate_paper_data: ss, what fetch_semantic_scholar returned
    atrace,     \* fetcher calls and _polite_delay calls of the pass, in order
    aresult,    \* "running", "returned" (a report) or "raised" (an exception)
    fetched     \* what each source fetcher returned ("uncalled" before its call)

aggVars == <<apc, adoi, report, ss, atrace, aresult, fetched>>

VARIABLES
    dpc,        \* "idle", "start", "once" (extract_doi applied) or "twice"
    text,       \* the text handed to extract_doi, as a sequence of tokens
    doi1,       \* extract_doi(text)
    doi2        \* extract_doi(doi1), when doi1 is an identifier

doiVars == <<dpc, text, doi1, doi2>>

VARIABLES
    mpc,        \* to_markdown: the block to run next
    rin,        \* to_markdown: the report handed in, field by field
    lines,      \* to_markdown: lines
    authors,    \* to_markdown: authors, what _extract_authors returned
    journal,    \* to_markdown: journal
    date,       \* to_markdown: date
    oa_urls,    \* to_markdown: oa_urls
    notices,    \* to_markdown: notices
    mresult     \* "running", "returned" (the document) or "raised"

renderVars == <<mpc, rin, lines, authors, journal, date, oa_urls, notices, mresult>>

VARIABLES
    runs,       \* invocations started one after the other on the same ledger
    passes      \* the timestamps recorded by the invocations that passed the gate

seqVars == <<runs, passes>>

VARIABLES
    rpc,            \* concurrent invocations: where each one stands
    rwake,          \* check_rate_limit: when its sleep ends
    rnow,           \* record_request: now
    rtimestamps,    \* record_request: timestamps, pruned and appended to
    events          \* the reads and writes of the ledger file, in order

raceVars == <<rpc, rwake, rnow, rtimestamps, events>>

ledgerVars == <<seqVars, raceVars>>

\* The variables of the specifications that follow the aggregator.
extVars == <<doiVars, renderVars, ledgerVars>>

vars == <<mainVars, httpVars, aggVars, extVars>>

\* --------------------------------------------------------------------- main
IdleHttp ==
    /\ hpc = "idle"
    /\ method = "get"
    /\ attempt = 0
    /\ hlog = <<>>
    /\ hresult = None
    /\ proxyFile = [kind |-> "missing", enabled |-> "absent", pool |-> 0]
    /\ proxyForce = None

InitMain ==
    /\ file \in InitialFiles
    /\ file0 = file
    /\ clock = T0
    /\ pc = "title"
    /\ args \in [title : TitleOutcomes, inputs : InputLists]
    /\ dois = <<>>
    /\ reports = <<>>
    /\ trace = <<>>
    /\ slept = 0
    /\ outcome = "running"
    /\ exitCode = -1

Exit(code, why) ==
    /\ pc' = "ended"
    /\ exitCode' = code
    /\ outcome' = why

\* main(): the `if args.title:` block.
title_search ==
    /\ pc = "title"
    /\ IF args.title = "none"
       THEN /\ pc' = "resolve"
            /\ UNCHANGED <<trace, dois, exitCode, outcome>>
       ELSE /\ trace' = Append(trace, "search_crossref")
            /\ IF args.title = "empty"
               THEN Exit(1, "no_results") /\ UNCHANGED dois
               ELSE /\ dois' = (IF args.title \in Ids THEN <<args.title>> ELSE <<>>)
                    /\ pc' = "resolve"
                    /\ UNCHANGED <<exitCode, outcome>>
    /\ UNCHANGED <<file, file0, clock, args, reports, slept>>
    /\ UNCHANGED <<httpVars, aggVars, extVars>>

\* main(): the loop over args.inputs and the `if not dois: parser.error(...)`.
resolve_inputs ==
    /\ pc = "resolve"
    /\ dois' = dois \o SelectSeq(args.inputs, LAMBDA d : d # NoDoi)
    /\ IF dois' = <<>>
       THEN Exit(2, "no_dois")
       ELSE pc' = "dedup" /\ UNCHANGED <<exitCode, outcome>>
    /\ UNCHANGED <<file, file0, clock, args, reports, trace, slept>>
    /\ UNCHANGED <<httpVars, aggVars, extVars>>

\* main(): the "Deduplicate" block.
deduplicate ==
    /\ pc = "dedup"
    /\ dois' = Unique(dois, {}, <<>>)
    /\ pc' = "gate"
    /\ UNCHANGED <<file, file0, clock, args, reports, trace, slept, outcome, exitCode>>
    /\ UNCHANGED <<httpVars, aggVars, extVars>>

check_rate_limit_records ==
    /\ pc = "gate"
    /\ trace' = Append(trace, "check_rate_limit")
    /\ LET now == clock IN
       IF PruneRaises(file)
       THEN Exit(1, "ledger_error") /\ UNCHANGED <<clock, slept, file>>
       ELSE LET timestamps == Prune(LoadTimestamps(file), now)
                wait == Wait(timestamps, now)
            IN /\ slept' = wait
               /\ \E over \in 0..MaxOversleep :
                      clock' = IF wait > 0 THEN now + wait + over ELSE now
               /\ IF Len(timestamps) >= MAX_REQUESTS_PER_HOUR
                  THEN /\ Exit(1, "quota")
                       /\ file' = [kind |-> "list", ts |-> Append(timestamps, now)]
                  ELSE pc' = "record" /\ UNCHANGED <<exitCode, outcome, file>>
    /\ UNCHANGED <<file0, args, dois, reports>>
    /\ UNCHANGED <<httpVars, aggVars, extVars>>

check_rate_limit ==
    /\ pc = "gate"
    /\ trace' = Append(trace, "check_rate_limit")
    /\ LET now == clock IN
       IF PruneRaises(file)
       THEN Exit(1, "ledger_error") /\ UNCHANGED <<clock, slept>>
       ELSE LET timestamps == Prune(LoadTimestamps(file), now)
                wait == Wait(timestamps, now)
            IN /\ slept' = wait
               /\ \E over \in 0..MaxOversleep :
                      clock' = IF wait > 0 THEN now + wait + over ELSE now
               /\ IF Len(timestamps) >= MAX_REQUESTS_PER_HOUR
                  THEN Exit(1, "quota")
                  ELSE pc' = "record" /\ UNCHANGED <<exitCode, outcome>>
    /\ UNCHANGED <<file, file0, args, dois, reports>>
    /\ UNCHANGED <<httpVars, aggVars, extVars>>

record_request ==
    /\ pc = "record"
    /\ trace' = Append(trace, "record_request")
    /\ \E d \in 0..MaxLatency :
         LET now == clock + d IN
         /\ clock' = now
         /\ IF PruneRaises(file)
            THEN Exit(1, "ledger_error") /\ UNCHANGED file
            ELSE \E writable \in (IF file.kind = "unreadable" THEN BOOLEAN ELSE {TRUE}) :
                   IF writable
                   THEN /\ file' = [kind |-> "list",
                                    ts |-> Append(Prune(LoadTimestamps(file), now), now)]
                        /\ pc' = "process"
                        /\ UNCHANGED <<exitCode, outcome>>
                   ELSE Exit(1, "ledger_error") /\ UNCHANGED file
    /\ UNCHANGED <<file0, args, dois, reports, slept>>
    /\ UNCHANGED <<httpVars, aggVars, extVars>>

\* main(): one iteration of `for i, doi in enumerate(dois)`; the pass itself
\* is SpecAgg's, here it returns a report or raises.
process_doi ==
    /\ pc = "process"
    /\ Len(reports) < Len(dois)
    /\ trace' = Append(trace, "aggregate_paper_data")
    /\ \E raised \in BOOLEAN :
         IF raised
         THEN Exit(1, "fetch_error") /\ UNCHANGED reports
         ELSE /\ reports' = Append(reports, dois[Len(reports) + 1])
              /\ UNCHANGED <<pc, exitCode, outcome>>
    /\ UNCHANGED <<file, file0, clock, args, dois, slept>>
    /\ UNCHANGED <<httpVars, aggVars, extVars>>

\* main(): the reports are printed or written, main returns.
finish ==
    /\ pc = "process"
    /\ Len(reports) = Len(dois)
    /\ Exit(0, "ok")
    /\ UNCHANGED <<file, file0, clock, args, dois, reports, trace, slept>>
    /\ UNCHANGED <<httpVars, aggVars, extVars>>

NextMain ==
    \/ title_search
    \/ resolve_inputs
    \/ deduplicate
    \/ check_rate_limit
    \/ record_request
    \/ process_doi
    \/ finish

IdleMain ==
    /\ file = [kind |-> "missing", ts |-> <<>>]
    /\ file0 = file
    /\ clock = T0
    /\ pc = "idle"
    /\ args = [title |-> "none", inputs |-> <<>>]
    /\ dois = <<>>
    /\ reports = <<>>
    /\ trace = <<>>
    /\ slept = 0
    /\ outcome = "running"
    /\ exitCode = -1

\* ------------------------------------------------------- transport wrapper
\* ~/.scholar-proxies.json.  kind: missing, unreadable, badjson, mapping (a
\* JSON mapping, `enabled` "true", "false" or "absent", `pool` proxies listed),
\* list or scalar (valid JSON that is no mapping).
ProxyFiles ==
    {[kind |-> k, enabled |-> "absent", pool |-> 0] :
         k \in {"missing", "unreadable", "badjson", "list", "scalar"}}
    \cup {[kind |-> "mapping", enabled |-> e, pool |-> n] :
              e \in {"true", "false", "absent"}, n \in 0..MaxPool}

ProxyForces == {None, "True", "False"}

\* _load_proxy_config: the parsed file, or the default on a caught exception.
_load_proxy_config(f) ==
    IF f.kind \in {"missing", "unreadable", "badjson"}
    THEN [kind |-> "mapping", enabled |-> "false", pool |-> 0]
    ELSE f

\* _get_proxy: the set of possible results; tag "raise" when config.get fails
\* on a config that is no mapping, "None" for no proxy, "proxy" with the url
\* picked by random.choice.
_get_proxy(f, force) ==
    LET config == _load_proxy_config(f)
        NoProxy == {[tag |-> "None", url |-> 0]}
        Raise == {[tag |-> "raise", url |-> 0]}
    IN IF force = "False" THEN NoProxy
       ELSE IF config.kind # "mapping" THEN Raise
       ELSE IF force = None /\ config.enabled # "true" THEN NoProxy
       ELSE IF config.pool = 0 THEN NoProxy
       ELSE {[tag |-> "proxy", url |-> u] : u \in 1..config.pool}

\* What one attempt can meet once the proxy is chosen:
\*   ok               2xx and resp.json() parses
\*   ok_badbody       2xx and resp.json() raises
\*   429              HTTP 429
\*   other            any other non-2xx status
\*   transport_error  requests.get / requests.post raises
\* and, when _get_proxy itself raised, proxy_error.
Responses == {"ok", "ok_badbody", "429", "other", "transport_error"}

Exceptions == {"ok_badbody", "transport_error", "proxy_error"}

\* The body of the for loop after the request: the sleep taken, whether the
\* loop goes on to the next attempt, and the value returned when it does not.
AfterResponseRetryAll(resp, att, backoff) ==
    IF resp = "ok" THEN [sleep |-> 0, again |-> FALSE, result |-> "json"]
    ELSE IF resp = "429" /\ att < retries
         THEN [sleep |-> backoff, again |-> TRUE, result |-> None]
    ELSE IF resp = "429"
         THEN [sleep |-> 0, again |-> FALSE, result |-> None]
    ELSE IF att < retries
         THEN [sleep |-> RetrySleep, again |-> TRUE, result |-> None]
    ELSE [sleep |-> 0, again |-> FALSE, result |-> None]

AfterResponse(resp, att, backoff) ==
    IF resp = "ok" THEN [sleep |-> 0, again |-> FALSE, result |-> "json"]
    ELSE IF resp = "429" /\ att < retries
         THEN [sleep |-> backoff, again |-> TRUE, result |-> None]
    ELSE IF resp \in {"429", "other"}
         THEN [sleep |-> 0, again |-> FALSE, result |-> None]
    ELSE IF att < retries
         THEN [sleep |-> RetrySleep, again |-> TRUE, result |-> None]
    ELSE [sleep |-> 0, again |-> FALSE, result |-> None]

InitHttp ==
    /\ hpc = "loop"
    /\ method \in {"get", "post"}
    /\ attempt = 0
    /\ hlog = <<>>
    /\ hresult = None
    /\ proxyFile \in ProxyFiles
    /\ proxyForce \in ProxyForces

\* One iteration of `for attempt in range(retries + 1)`.
Attempt(m) ==
    /\ hpc = "loop"
    /\ method = m
    /\ \E p \in _get_proxy(proxyFile, proxyForce) :
       \E resp \in (IF p.tag = "raise" THEN {"proxy_error"} ELSE Responses) :
       \E backoff \in BackoffMin..BackoffMax :
          LET a == AfterResponse(resp, attempt, backoff) IN
          /\ hlog' = Append(hlog, [resp |-> resp, sleep |-> a.sleep, proxy |-> p])
          /\ IF a.again
             THEN attempt' = attempt + 1 /\ UNCHANGED <<hpc, hresult>>
             ELSE hpc' = "returned" /\ hresult' = a.result /\ UNCHANGED attempt
    /\ UNCHANGED <<method, proxyFile, proxyForce>>
    /\ UNCHANGED <<mainVars, aggVars, extVars>>

_get == Attempt("get")

_post == Attempt("post")

NextHttp ==
    \/ _get
    \/ _post

\* --------------------------------------------------------------- aggregator
\* What _get / _post hands to a fetcher: None, or the parsed JSON body.
\*   None     no data
\*   empty    a falsy body ({}, [], 0)
\*   good     a mapping of the schema the fetcher expects, carrying a result
\*   nokey    a mapping without the expected key, or with an empty result
\*   list     a non-empty JSON list (of mappings)
\*   number   a non-zero JSON number
\* and for PubPeer: badid (a feedback whose id is a number), nomatch (no
\* feedback carries the queried identifier).
Bodies == {"None", "empty", "good", "nokey", "list", "number"}

PubPeerBodies == Bodies \cup {"badid", "nomatch"}

Truthy(v) == v \notin {"None", "empty"}

Ret(v) == [raised |-> FALSE, value |-> v]

Raises == [raised |-> TRUE, value |-> None]

\* `if data:` followed by data.get(...) chains: AttributeError when the body
\* is no mapping.
GetBased(data, found, notfound) ==
    IF ~Truthy(data) THEN Ret(notfound)
    ELSE IF data \in {"list", "number"} THEN Raises
    ELSE IF data = "good" THEN Ret(found)
    ELSE Ret(notfound)

\* `"message" in data` is False on a list of mappings, TypeError on a number.
fetch_crossref(data) ==
    IF ~Truthy(data) THEN Ret(None)
    ELSE IF data = "number" THEN Raises
    ELSE IF data = "good" THEN Ret("record")
    ELSE Ret(None)

fetch_openalex(data) == Ret(data)

IsArxiv(doi) == doi = "10.48550/arXiv.1"

fetch_semantic_scholar(doi, data, data2) ==
    Ret(IF ~Truthy(data) /\ IsArxiv(doi) THEN data2 ELSE data)

fetch_recommendations(data) == GetBased(data, "recs", "empty")

fetch_pubmed_id(data) == GetBased(data, "pmid", None)

fetch_pubmed_pmc(data) == GetBased(data, "pmcid", None)

fetch_pubpeer(data) ==
    IF data = "badid" THEN Raises
    ELSE IF data = "nomatch" THEN Ret(None)
    ELSE GetBased(data, "record", None)

fetch_europepmc(data) == GetBased(data, "record", None)

fetch_hypothesis_count(data) ==
    IF ~Truthy(data) THEN [raised |-> FALSE, value |-> 0]
    ELSE IF data \in {"list", "number"} THEN [raised |-> TRUE, value |-> 0]
    ELSE IF data = "good" THEN [raised |-> FALSE, value |-> 3]
    ELSE [raised |-> FALSE, value |-> 0]

SourceNames == {"crossref", "openalex", "semantic_scholar", "europepmc", "pubpeer"}

\* report = {"doi": doi, "sources": {}}; "absent" marks a key that is not set,
\* -1 an annotation count that is not set.
NewReport(doi) ==
    [doi |-> doi,
     sources |-> [n \in SourceNames |-> "absent"],
     pmid |-> "absent",
     pmc_id |-> "absent",
     hypothesis_annotations |-> -1,
     recommendations |-> "absent"]

StoreAlways(rep, name, v) == [rep EXCEPT !.sources[name] = v]

\* `if x: report["sources"][name] = x`
Store(rep, name, v) ==
    IF Truthy(v) THEN [rep EXCEPT !.sources[name] = v] ELSE rep

IdleAgg ==
    /\ apc = "idle"
    /\ adoi = "10.1/a"
    /\ report = NewReport("10.1/a")
    /\ ss = None
    /\ atrace = <<>>
    /\ aresult = "running"
    /\ fetched = [n \in SourceNames |-> "uncalled"]

InitAgg ==
    /\ apc = "crossref"
    /\ adoi \in {"10.1/a", "10.48550/arXiv.1"}
    /\ report = NewReport(adoi)
    /\ ss = None
    /\ atrace = <<>>
    /\ aresult = "running"
    /\ fetched = [n \in SourceNames |-> "uncalled"]

Raise ==
    /\ apc' = "done"
    /\ aresult' = "raised"

agg_crossref ==
    /\ apc = "crossref"
    /\ atrace' = Append(atrace, "fetch_crossref")
    /\ \E data \in Bodies :
         LET cr == fetch_crossref(data) IN
         IF cr.raised
         THEN Raise /\ UNCHANGED <<report, fetched>>
         ELSE /\ report' = Store(report, "crossref", cr.value)
              /\ fetched' = [fetched EXCEPT !["crossref"] = cr.value]
              /\ apc' = "openalex"
              /\ UNCHANGED aresult
    /\ UNCHANGED <<adoi, ss>>
    /\ UNCHANGED <<mainVars, httpVars, extVars>>

agg_openalex ==
    /\ apc = "openalex"
    /\ atrace' = atrace \o <<"_polite_delay", "fetch_openalex">>
    /\ \E data \in Bodies :
         LET oa == fetch_openalex(data) IN
         /\ report' = Store(report, "openalex", oa.value)
         /\ fetched' = [fetched EXCEPT !["openalex"] = oa.value]
         /\ apc' = "semantic_scholar"
    /\ UNCHANGED <<adoi, ss, aresult>>
    /\ UNCHANGED <<mainVars, httpVars, extVars>>

agg_semantic_scholar ==
    /\ apc = "semantic_scholar"
    /\ atrace' = atrace \o <<"_polite_delay", "fetch_semantic_scholar">>
    /\ \E data \in Bodies : \E data2 \in Bodies :
         LET r == fetch_semantic_scholar(adoi, data, data2) IN
         /\ ss' = r.value
         /\ report' = Store(report, "semantic_scholar", r.value)
         /\ fetched' = [fetched EXCEPT !["semantic_scholar"] = r.value]
         /\ apc' = "pubmed"
    /\ UNCHANGED <<adoi, aresult>>
    /\ UNCHANGED <<mainVars, httpVars, extVars>>

agg_pubmed_unconditional ==
    /\ apc = "pubmed"
    /\ \E data \in Bodies : \E data2 \in Bodies :
         LET pmid == fetch_pubmed_id(data)
             pmc == fetch_pubmed_pmc(data2)
         IN IF pmid.raised
            THEN /\ atrace' = atrace \o <<"_polite_delay", "fetch_pubmed_id">>
                 /\ Raise /\ UNCHANGED report
            ELSE IF ~Truthy(pmid.value)
            THEN /\ atrace' = atrace \o <<"_polite_delay", "fetch_pubmed_id", "fetch_pubmed_pmc">>
                 /\ IF pmc.raised
                    THEN Raise /\ UNCHANGED report
                    ELSE /\ report' = [report EXCEPT !.pmc_id = IF Truthy(pmc.value)
                                                                THEN pmc.value ELSE @]
                         /\ apc' = "europepmc"
                         /\ UNCHANGED aresult
            ELSE /\ atrace' = atrace \o <<"_polite_delay", "fetch_pubmed_id", "fetch_pubmed_pmc">>
                 /\ IF pmc.raised
                    THEN Raise /\ report' = [report EXCEPT !.pmid = pmid.value]
                    ELSE /\ report' = [report EXCEPT !.pmid = pmid.value,
                                                     !.pmc_id = IF Truthy(pmc.value)
                                                                THEN pmc.value ELSE @]
                         /\ apc' = "europepmc"
                         /\ UNCHANGED aresult
    /\ UNCHANGED <<adoi, ss, fetched>>
    /\ UNCHANGED <<mainVars, httpVars, extVars>>

agg_pubmed ==
    /\ apc = "pubmed"
    /\ \E data \in Bodies : \E data2 \in Bodies :
         LET pmid == fetch_pubmed_id(data)
             pmc == fetch_pubmed_pmc(data2)
         IN IF pmid.raised
            THEN /\ atrace' = atrace \o <<"_polite_delay", "fetch_pubmed_id">>
                 /\ Raise /\ UNCHANGED report
            ELSE IF ~Truthy(pmid.value)
            THEN /\ atrace' = atrace \o <<"_polite_delay", "fetch_pubmed_id">>
                 /\ apc' = "europepmc"
                 /\ UNCHANGED <<report, aresult>>
            ELSE /\ atrace' = atrace \o <<"_polite_delay", "fetch_pubmed_id", "fetch_pubmed_pmc">>
                 /\ IF pmc.raised
                    THEN Raise /\ report' = [report EXCEPT !.pmid = pmid.value]
                    ELSE /\ report' = [report EXCEPT !.pmid = pmid.value,
                                                     !.pmc_id = IF Truthy(pmc.value)
                                                                THEN pmc.value ELSE @]
                         /\ apc' = "europepmc"
                         /\ UNCHANGED aresult
    /\ UNCHANGED <<adoi, ss, fetched>>
    /\ UNCHANGED <<mainVars, httpVars, extVars>>

agg_europepmc ==
    /\ apc = "europepmc"
    /\ atrace' = atrace \o <<"_polite_delay", "fetch_europepmc">>
    /\ \E data \in Bodies :
         LET epmc == fetch_europepmc(data) IN
         IF epmc.raised
         THEN Raise /\ UNCHANGED <<report, fetched>>
         ELSE /\ report' = Store(report, "europepmc", epmc.value)
              /\ fetched' = [fetched EXCEPT !["europepmc"] = epmc.value]
              /\ apc' = "pubpeer"
              /\ UNCHANGED aresult
    /\ UNCHANGED <<adoi, ss>>
    /\ UNCHANGED <<mainVars, httpVars, extVars>>

agg_pubpeer ==
    /\ apc = "pubpeer"
    /\ atrace' = atrace \o <<"_polite_delay", "fetch_pubpeer">>
    /\ \E data \in PubPeerBodies :
         LET pp == fetch_pubpeer(data) IN
         IF pp.raised
         THEN Raise /\ UNCHANGED <<report, fetched>>
         ELSE /\ report' = Store(report, "pubpeer", pp.value)
              /\ fetched' = [fetched EXCEPT !["pubpeer"] = pp.value]
              /\ apc' = "hypothesis"
              /\ UNCHANGED aresult
    /\ UNCHANGED <<adoi, ss>>
    /\ UNCHANGED <<mainVars, httpVars, extVars>>

agg_hypothesis ==
    /\ apc = "hypothesis"
    /\ atrace' = atrace \o <<"_polite_delay", "fetch_hypothesis_count">>
    /\ \E data \in Bodies :
         LET hyp_count == fetch_hypothesis_count(data) IN
         IF hyp_count.raised
         THEN Raise /\ UNCHANGED report
         ELSE /\ report' = [report EXCEPT !.hypothesis_annotations = hyp_count.value]
              /\ apc' = "recommendations"
              /\ UNCHANGED aresult
    /\ UNCHANGED <<adoi, ss, fetched>>
    /\ UNCHANGED <<mainVars, httpVars, extVars>>

\* `if ss and ss.get("paperId"):` to `return report`; ss.get raises when ss
\* is no mapping.
agg_recommendations ==
    /\ apc = "recommendations"
    /\ apc' = "done"
    /\ IF ~Truthy(ss) \/ ss = "nokey"
       THEN aresult' = "returned" /\ UNCHANGED <<report, atrace>>
       ELSE IF ss \in {"list", "number"}
       THEN aresult' = "raised" /\ UNCHANGED <<report, atrace>>
       ELSE /\ atrace' = atrace \o <<"_polite_delay", "fetch_recommendations">>
            /\ \E data \in Bodies :
                 LET recs == fetch_recommendations(data) IN
                 IF recs.raised
                 THEN aresult' = "raised" /\ UNCHANGED report
                 ELSE /\ aresult' = "returned"
                      /\ report' = [report EXCEPT !.recommendations =
                                        IF Truthy(recs.value) THEN recs.value ELSE @]
    /\ UNCHANGED <<adoi, ss, fetched>>
    /\ UNCHANGED <<mainVars, httpVars, extVars>>

NextAgg ==
    \/ agg_crossref
    \/ agg_openalex
    \/ agg_semantic_scholar
    \/ agg_pubmed
    \/ agg_europepmc
    \/ agg_pubpeer
    \/ agg_hypothesis
    \/ agg_recommendations

\* ------------------------------------------------------------- extract_doi
\* A text is a sequence of tokens, each standing for the characters it
\* spells: the registrant prefix "10.1234/" (what `10\.\d{4,9}/` matches), an
\* ordinary character "a", the punctuation "." and ";", a known extension in
\* lower or upper case, and two characters the DOI_REGEX class excludes: the
\* blank and the comma.
Prefix == "10.1234/"

Terminators == {" ", ","}

Alphabet == {Prefix, "a", ".", ";", ".pdf", ".PDF", ".xml"} \cup Terminators

Texts == UNION {[1..n -> Alphabet] : n \in 0..MaxText}

\* str.lower() on a token.
LowerToken(t) == IF t = ".PDF" THEN ".pdf" ELSE t

NoMatch == [found |-> FALSE, doi |-> <<>>]

\* DOI_REGEX.search(text): the first position where the prefix is followed by
\* at least one character of the class; 0 when there is none.
MatchStart(t) ==
    LET starts == {i \in 1..(Len(t) - 1) : t[i] = Prefix /\ t[i + 1] \notin Terminators}
    IN IF starts = {} THEN 0 ELSE SetMin(starts)

\* match.group(1): the prefix and the longest run of class characters after it.
MatchGroup(t, i) ==
    LET stops == {j \in (i + 1)..Len(t) : t[j] \in Terminators}
        end == IF stops = {} THEN Len(t) ELSE SetMin(stops) - 1
    IN SubSeq(t, i, end)

\* str.rstrip(".,;:"); the prefix ends in "/" and is never stripped.
RECURSIVE RStrip(_)
RStrip(d) ==
    IF d # <<>> /\ Last(d) \in {".", ",", ";", ":"}
    THEN RStrip(SubSeq(d, 1, Len(d) - 1))
    ELSE d

\* `if doi.lower().endswith(ext): doi = doi[: -len(ext)]`
StripExt(d, ext) ==
    IF d # <<>> /\ LowerToken(Last(d)) = ext THEN SubSeq(d, 1, Len(d) - 1) ELSE d

extract_doi(t) ==
    LET i == MatchStart(t) IN
    IF i = 0 THEN NoMatch
    ELSE [found |-> TRUE,
          doi |-> StripExt(StripExt(StripExt(StripExt(
                      RStrip(MatchGroup(t, i)), ".pdf"), ".html"), ".full"), ".xml")]

IdleDoi ==
    /\ dpc = "idle"
    /\ text = <<>>
    /\ doi1 = NoMatch
    /\ doi2 = NoMatch

InitDoi ==
    /\ dpc = "start"
    /\ text \in Texts
    /\ doi1 = NoMatch
    /\ doi2 = NoMatch

extract ==
    /\ dpc = "start"
    /\ doi1' = extract_doi(text)
    /\ dpc' = "once"
    /\ UNCHANGED <<text, doi2>>
    /\ UNCHANGED <<mainVars, httpVars, aggVars, renderVars, ledgerVars>>

\* extract_doi applied to the identifier it returned.
extract_again ==
    /\ dpc = "once"
    /\ doi1.found
    /\ doi2' = extract_doi(doi1.doi)
    /\ dpc' = "twice"
    /\ UNCHANGED <<text, doi1>>
    /\ UNCHANGED <<mainVars, httpVars, aggVars, renderVars, ledgerVars>>

NextDoi ==
    \/ extract
    \/ extract_again

\* ------------------------------------------- field reconcilers, renderer
\* A report handed to to_markdown, flattened: one entry per field that the
\* renderer reads, "absent" when the key is not there.  A source whose fields
\* are all absent is a source missing from report["sources"] (to_markdown
\* reads it as {}).  The other values name the shapes that the code tells
\* apart:
\*   author lists   names (two entries with a name), mixed (one with, one
\*                  without), blank (one entry, no name in it)
\*   date kinds     ymd ([[y, m, d]]), y ([[y]]), nodp (no "date-parts")
\*   license        cc (a creativecommons.org URL), other, nourl
\*   fullTextUrlList  pdf_url (a pdf entry with "url"), pdf_nourl (a pdf
\*                  entry without "url"), html (no pdf entry)
AuthorShapes == {"names", "mixed", "blank"}

DateShapes == {"ymd", "y", "nodp"}

DateKeys == <<"cr.published-print", "cr.published-online", "cr.issued", "cr.created">>

LabelShapes == {"retract", "erratum", "concern", "nolabel"}

FieldOptions ==
    [f \in {"cr.title"} |-> {"T", "emptylist"}]
    @@ [f \in {"oa.title", "ss.title", "epmc.title"} |-> {"T"}]
    @@ [f \in {"cr.author", "oa.authorships", "ss.authors"} |-> AuthorShapes]
    @@ [f \in {"epmc.authorString"} |-> {"names"}]
    @@ [f \in {"cr.container-title", "epmc.journalTitle"} |-> {"J"}]
    @@ [f \in {"cr.volume", "cr.issue", "cr.page"} |-> {"x"}]
    @@ [f \in {"ss.journal"} |-> {"named", "noname"}]
    @@ [f \in Range(DateKeys) |-> DateShapes]
    @@ [f \in {"ss.publicationDate", "oa.publication_year", "epmc.pubYear"} |-> {"y"}]
    @@ [f \in {"cr.type", "ss.publicationTypes"} |-> {"type"}]
    @@ [f \in {"pmid"} |-> {"pmid"}]
    @@ [f \in {"pmc_id"} |-> {"pmcid"}]
    @@ [f \in {"ss.tldr"} |-> {"text", "notext"}]
    @@ [f \in {"cr.abstract", "epmc.abstractText"} |-> {"text"}]
    @@ [f \in {"cr.is-referenced-by-count", "oa.cited_by_count", "ss.citationCount",
               "epmc.citedByCount"} |-> {"n"}]
    @@ [f \in {"ss.openAccessPdf"} |-> {"url", "nourl"}]
    @@ [f \in {"oa.open_access"} |-> {"url_status", "url", "nourl"}]
    @@ [f \in {"epmc.isOpenAccess"} |-> {"Y", "N"}]
    @@ [f \in {"epmc.fullTextUrlList"} |-> {"pdf_url", "pdf_nourl", "html"}]
    @@ [f \in {"cr.license"} |-> {"cc", "other", "nourl"}]
    @@ [f \in {"cr.relation"} |-> {"retracted", "concern"}]
    @@ [f \in {"cr.update-to", "cr.updated-by"} |-> LabelShapes]
    @@ [f \in {"pp.total_comments"} |-> {"0", "2"}]
    @@ [f \in {"pp.users"} |-> {"number", "string"}]
    @@ [f \in {"hypothesis_annotations"} |-> {"0", "3"}]
    @@ [f \in {"oa.concepts"} |-> {"high", "low"}]
    @@ [f \in {"cr.funder"} |-> {"named", "noname"}]
    @@ [f \in {"cr.reference", "recommendations"} |-> {"list"}]

Fields == DOMAIN FieldOptions

EmptyReport == [f \in Fields |-> "absent"]

\* A field with one of its values; the first field left as it is.
Settings ==
    UNION {{<<f, v>> : v \in FieldOptions[f]} : f \in Fields} \cup {<<"cr.title", "absent">>}

\* The report with the first k settings of c made, one after the other.
RECURSIVE ReportWith(_, _)
ReportWith(c, k) ==
    IF k = 0 THEN EmptyReport
    ELSE [ReportWith(c, k - 1) EXCEPT ![c[k][1]] = c[k][2]]

\* aggregate_paper_data stores a pmc_id only next to a pmid.
RenderInput(r) == r["pmc_id"] # "absent" => r["pmid"] # "absent"

Has(r, f) == r[f] # "absent"

\* The name each entry of an author list yields ("" when it yields none).
Entries(shape, a, b) ==
    CASE shape = "names" -> <<a, b>>
      [] shape = "mixed" -> <<a, "">>
      [] shape = "blank" -> <<"">>
      [] OTHER -> <<>>

Named(entries) == SelectSeq(entries, LAMBDA n : n # "")

_extract_authors(r) ==
    LET cr_authors == Entries(r["cr.author"], "cr author 1", "cr author 2")
        authorships == Entries(r["oa.authorships"], "oa author 1", "oa author 2")
        ss_authors == Entries(r["ss.authors"], "ss author 1", "ss author 2")
    IN IF cr_authors # <<>> /\ Named(cr_authors) # <<>> THEN Named(cr_authors)
       ELSE IF authorships # <<>> THEN Named(authorships)
       ELSE IF ss_authors # <<>> THEN Named(ss_authors)
       ELSE IF Has(r, "epmc.authorString") THEN <<"epmc authors">>
       ELSE <<>>

\* The parts joined by ", "; <<>> stands for None.
_extract_journal(r) ==
    IF Has(r, "cr.container-title")
    THEN <<"cr journal">>
         \o (IF Has(r, "cr.volume") THEN <<"vol.">> ELSE <<>>)
         \o (IF Has(r, "cr.issue") THEN <<"no.">> ELSE <<>>)
         \o (IF Has(r, "cr.page") THEN <<"pp.">> ELSE <<>>)
    ELSE IF r["ss.journal"] = "named" THEN <<"ss journal">>
    ELSE IF Has(r, "epmc.journalTitle") THEN <<"epmc journal">>
    ELSE <<>>

\* The date string by its source and format; "None" stands for None.
_extract_date(r) ==
    LET dated == {k \in 1..Len(DateKeys) : r[DateKeys[k]] \in {"ymd", "y"}} IN
    IF dated # {}
    THEN IF r[DateKeys[SetMin(dated)]] = "ymd" THEN "cr YYYY-MM-DD" ELSE "cr YYYY"
    ELSE IF Has(r, "ss.publicationDate") THEN "ss date"
    ELSE IF Has(r, "oa.publication_year") THEN "oa year"
    ELSE IF Has(r, "epmc.pubYear") THEN "epmc year"
    ELSE None

\* The labels of the links, in order; u["url"] raises KeyError on a pdf entry
\* without "url".
_extract_oa_links(r) ==
    IF r["epmc.isOpenAccess"] = "Y" /\ r["epmc.fullTextUrlList"] = "pdf_nourl"
    THEN [raised |-> TRUE, value |-> <<>>]
    ELSE [raised |-> FALSE,
          value |->
              (IF Has(r, "pmc_id") THEN <<"PubMed Central">> ELSE <<>>)
              \o (IF r["ss.openAccessPdf"] = "url" THEN <<"Semantic Scholar PDF">> ELSE <<>>)
              \o (IF r["oa.open_access"] = "url_status" THEN <<"OpenAlex (status)">>
                  ELSE IF r["oa.open_access"] = "url" THEN <<"OpenAlex (open)">>
                  ELSE <<>>)
              \o (IF r["epmc.isOpenAccess"] = "Y" /\ r["epmc.fullTextUrlList"] = "pdf_url"
                  THEN <<"Europe PMC PDF">> ELSE <<>>)
              \o (IF r["cr.license"] = "cc" THEN <<"License">> ELSE <<>>)]

NoticeOf(label) ==
    CASE label = "retract" -> {"RETRACTED"}
      [] label = "erratum" -> {"Has correction/erratum"}
      [] label = "concern" -> {"Expression of concern"}
      [] OTHER -> {}

\* list(set(notices)): the notices without their order.
_extract_notices(r) ==
    (IF r["cr.relation"] = "retracted" THEN {"RETRACTED"} ELSE {})
    \cup (IF r["cr.relation"] = "concern" THEN {"Expression of concern"} ELSE {})
    \cup NoticeOf(r["cr.update-to"])
    \cup NoticeOf(r["cr.updated-by"])

\* A line of the document, by what it shows.
TitleLine(r) ==
    IF r["cr.title"] = "T" THEN "# cr title"
    ELSE IF Has(r, "ss.title") THEN "# ss title"
    ELSE IF Has(r, "oa.title") THEN "# oa title"
    ELSE IF Has(r, "epmc.title") THEN "# epmc title"
    ELSE "# doi"

Section(present, heading, content) ==
    IF present THEN <<heading, "">> \o content \o <<"">> ELSE <<>>

\* One line per element of a set.
RECURSIVE Repeat(_, _)
Repeat(n, line) == IF n = 0 THEN <<>> ELSE <<line>> \o Repeat(n - 1, line)

IdleRender ==
    /\ mpc = "idle"
    /\ rin = EmptyReport
    /\ lines = <<>>
    /\ authors = <<>>
    /\ journal = <<>>
    /\ date = None
    /\ oa_urls = <<>>
    /\ notices = {}
    /\ mresult = "running"

InitRender ==
    /\ mpc = "header"
    /\ \E c \in [1..MaxFields -> Settings] :
          /\ rin = ReportWith(c, MaxFields)
          /\ RenderInput(rin)
    /\ lines = <<>>
    /\ authors = <<>>
    /\ journal = <<>>
    /\ date = None
    /\ oa_urls = <<>>
    /\ notices = {}
    /\ mresult = "running"

\* to_markdown: the title and the DOI line.
md_header ==
    /\ mpc = "header"
    /\ lines' = <<TitleLine(rin), "", "**DOI:**">>
    /\ mpc' = "authors"
    /\ UNCHANGED <<rin, authors, journal, date, oa_urls, notices, mresult>>
    /\ UNCHANGED <<mainVars, httpVars, aggVars, doiVars, ledgerVars>>

md_authors ==
    /\ mpc = "authors"
    /\ authors' = _extract_authors(rin)
    /\ lines' = lines \o (IF authors' # <<>> THEN <<"**Authors:**">> ELSE <<>>)
    /\ mpc' = "journal"
    /\ UNCHANGED <<rin, journal, date, oa_urls, notices, mresult>>
    /\ UNCHANGED <<mainVars, httpVars, aggVars, doiVars, ledgerVars>>

md_journal ==
    /\ mpc = "journal"
    /\ journal' = _extract_journal(rin)
    /\ lines' = lines \o (IF journal' # <<>> THEN <<"**Journal:**">> ELSE <<>>)
    /\ mpc' = "date"
    /\ UNCHANGED <<rin, authors, date, oa_urls, notices, mresult>>
    /\ UNCHANGED <<mainVars, httpVars, aggVars, doiVars, ledgerVars>>

md_date ==
    /\ mpc = "date"
    /\ date' = _extract_date(rin)
    /\ lines' = lines \o (IF date' # None THEN <<"**Published:**">> ELSE <<>>)
    /\ mpc' = "body"
    /\ UNCHANGED <<rin, authors, journal, oa_urls, notices, mresult>>
    /\ UNCHANGED <<mainVars, httpVars, aggVars, doiVars, ledgerVars>>

\* to_markdown: type, PubMed links, separator, TL;DR, abstract, citation counts.
md_body ==
    /\ mpc = "body"
    /\ lines' = lines
          \o (IF Has(rin, "cr.type") \/ Has(rin, "ss.publicationTypes")
              THEN <<"**Type:**">> ELSE <<>>)
          \o (IF Has(rin, "pmid") THEN <<"**PubMed:**">> ELSE <<>>)
          \o (IF Has(rin, "pmc_id") THEN <<"**PMC:**">> ELSE <<>>)
          \o <<"", "---", "">>
          \o Section(rin["ss.tldr"] = "text", "## TL;DR", <<"tldr">>)
          \o Section(Has(rin, "cr.abstract") \/ Has(rin, "epmc.abstractText"),
                     "## Abstract", <<"abstract">>)
          \o <<"## Citation Counts", "", "| Source | Citations | Notes |",
               "|--------|-----------|-------|">>
          \o (IF Has(rin, "cr.is-referenced-by-count") THEN <<"| CrossRef |">> ELSE <<>>)
          \o (IF Has(rin, "oa.cited_by_count") THEN <<"| OpenAlex |">> ELSE <<>>)
          \o (IF Has(rin, "ss.citationCount") THEN <<"| Semantic Scholar |">> ELSE <<>>)
          \o (IF Has(rin, "epmc.citedByCount") THEN <<"| Europe PMC |">> ELSE <<>>)
          \o <<"">>
    /\ mpc' = "oa_links"
    /\ UNCHANGED <<rin, authors, journal, date, oa_urls, notices, mresult>>
    /\ UNCHANGED <<mainVars, httpVars, aggVars, doiVars, ledgerVars>>

md_oa_links ==
    /\ mpc = "oa_links"
    /\ LET links == _extract_oa_links(rin) IN
       IF links.raised
       THEN /\ mpc' = "done"
            /\ mresult' = "raised"
            /\ UNCHANGED <<lines, oa_urls>>
       ELSE /\ oa_urls' = links.value
            /\ lines' = lines \o Section(links.value # <<>>, "## Open Access",
                                         Repeat(Len(links.value), "- link"))
            /\ mpc' = "notices"
            /\ UNCHANGED mresult
    /\ UNCHANGED <<rin, authors, journal, date, notices>>
    /\ UNCHANGED <<mainVars, httpVars, aggVars, doiVars, ledgerVars>>

md_notices ==
    /\ mpc = "notices"
    /\ notices' = _extract_notices(rin)
    /\ lines' = lines \o Section(notices' # {}, "## Editorial Notices",
                                 Repeat(Cardinality(notices'), "- notice"))
    /\ mpc' = "tail"
    /\ UNCHANGED <<rin, authors, journal, date, oa_urls, mresult>>
    /\ UNCHANGED <<mainVars, httpVars, aggVars, doiVars, ledgerVars>>

\* to_markdown: PubPeer, Hypothesis, topics, funding, references,
\* recommendations, footer, return.
md_tail ==
    /\ mpc = "tail"
    /\ lines' = lines
          \o Section(rin["pp.total_comments"] = "2", "## PubPeer", <<"pubpeer">>)
          \o Section(rin["hypothesis_annotations"] = "3", "## Hypothesis Annotations",
                     <<"hypothesis">>)
          \o Section(rin["oa.concepts"] = "high", "## Topics", <<"- topic">>)
          \o Section(Has(rin, "cr.funder"), "## Funding", <<"- funder">>)
          \o Section(Has(rin, "cr.reference"), "## References", <<"references">>)
          \o Section(Has(rin, "recommendations"), "## Recommended Papers",
                     <<"- recommendation">>)
          \o <<"---", "*Generated by Lazy Scholar CLI*">>
    /\ mpc' = "done"
    /\ mresult' = "returned"
    /\ UNCHANGED <<rin, authors, journal, date, oa_urls, notices>>
    /\ UNCHANGED <<mainVars, httpVars, aggVars, doiVars, ledgerVars>>

NextRender ==
    \/ md_header
    \/ md_authors
    \/ md_journal
    \/ md_date
    \/ md_body
    \/ md_oa_links
    \/ md_notices
    \/ md_tail

\* ------------------------------------------ several invocations, one ledger
\* A ledger that earlier invocations left behind: record_request writes the
\* timestamps less than `window` older than the one it appends, and
\* check_rate_limit lets it run while fewer than MAX_REQUESTS_PER_HOUR are left.
Written(timestamps) ==
    /\ Len(timestamps) <= MAX_REQUESTS_PER_HOUR
    /\ \A k \in DOMAIN timestamps : Last(timestamps) - timestamps[k] < window

WrittenLedgers ==
    {f \in InitialFiles : f.kind = "list" /\ Written(f.ts)}
    \cup {[kind |-> "missing", ts |-> <<>>]}

\* Seconds between the end of one invocation and the start of the next.
Gaps == {0, 400}

IdleSeq ==
    /\ runs = 0
    /\ passes = <<>>

Procs == {1, 2}

IdleRace ==
    /\ rpc = [p \in Procs |-> "idle"]
    /\ rwake = [p \in Procs |-> 0]
    /\ rnow = [p \in Procs |-> 0]
    /\ rtimestamps = [p \in Procs |-> <<>>]
    /\ events = <<>>

\* No invocation of main() under way; the ledger is one that was written.
BetweenInvocations ==
    /\ file \in WrittenLedgers
    /\ file0 = file
    /\ clock = T0
    /\ args = [title |-> "none", inputs |-> <<>>]
    /\ dois = <<>>
    /\ reports = <<>>
    /\ trace = <<>>
    /\ slept = 0

InitSeq ==
    /\ BetweenInvocations
    /\ pc = "ended"
    /\ outcome = "ok"
    /\ exitCode = 0
    /\ runs = 0
    /\ passes = LoadTimestamps(file)

\* The previous invocation is over (past the gate, or exited), the next one
\* starts and reaches the gate.
next_invocation ==
    /\ pc \in {"process", "ended"}
    /\ runs < MaxRuns
    /\ runs' = runs + 1
    /\ passes' = IF pc = "process" THEN Append(passes, Last(file.ts)) ELSE passes
    /\ \E g \in Gaps : clock' = clock + g
    /\ pc' = "gate"
    /\ trace' = <<>>
    /\ slept' = 0
    /\ outcome' = "running"
    /\ exitCode' = -1
    /\ UNCHANGED <<file, file0, args, dois, reports>>
    /\ UNCHANGED <<httpVars, aggVars, doiVars, renderVars, raceVars>>

NextSeq ==
    \/ next_invocation
    \/ check_rate_limit
    \/ record_request

InitRace ==
    /\ BetweenInvocations
    /\ pc = "idle"
    /\ outcome = "running"
    /\ exitCode = -1
    /\ rpc = [p \in Procs |-> "gate"]
    /\ rwake = [p \in Procs |-> 0]
    /\ rnow = [p \in Procs |-> 0]
    /\ rtimestamps = [p \in Procs |-> <<>>]
    /\ events = <<>>

\* check_rate_limit in invocation p: one read of the file, the decision, and
\* the sleep, which ends at rwake[p].
race_check_above(p) ==
    /\ rpc[p] = "gate"
    /\ LET now == clock
           timestamps == Prune(LoadTimestamps(file), now)
       IN /\ rwake' = [rwake EXCEPT ![p] = now + Wait(timestamps, now)]
          /\ rpc' = [rpc EXCEPT ![p] = IF Len(timestamps) > MAX_REQUESTS_PER_HOUR
                                       THEN "refused" ELSE "record"]
    /\ events' = Append(events, <<p, "check">>)
    /\ UNCHANGED <<rnow, rtimestamps>>
    /\ UNCHANGED <<mainVars, httpVars, aggVars, doiVars, renderVars, seqVars>>

race_check(p) ==
    /\ rpc[p] = "gate"
    /\ LET now == clock
           timestamps == Prune(LoadTimestamps(file), now)
       IN /\ rwake' = [rwake EXCEPT ![p] = now + Wait(timestamps, now)]
          /\ rpc' = [rpc EXCEPT ![p] = IF Len(timestamps) >= MAX_REQUESTS_PER_HOUR
                                       THEN "refused" ELSE "record"]
    /\ events' = Append(events, <<p, "check">>)
    /\ UNCHANGED <<rnow, rtimestamps>>
    /\ UNCHANGED <<mainVars, httpVars, aggVars, doiVars, renderVars, seqVars>>

\* record_request in invocation p, up to the append: now, the read of the
\* file, the pruning.  The clock is read once the sleep is over.
race_read(p) ==
    /\ rpc[p] = "record"
    /\ \E d \in 0..MaxLatency :
         LET now == (IF clock < rwake[p] THEN rwake[p] ELSE clock) + d IN
         /\ clock' = now
         /\ rnow' = [rnow EXCEPT ![p] = now]
         /\ rtimestamps' = [rtimestamps EXCEPT
                               ![p] = Append(Prune(LoadTimestamps(file), now), now)]
    /\ rpc' = [rpc EXCEPT ![p] = "write"]
    /\ events' = Append(events, <<p, "read">>)
    /\ UNCHANGED <<file, file0, pc, args, dois, reports, trace, slept, outcome, exitCode>>
    /\ UNCHANGED rwake
    /\ UNCHANGED <<httpVars, aggVars, doiVars, renderVars, seqVars>>

\* record_request in invocation p: the write of the file; p is past the gate.
race_write(p) ==
    /\ rpc[p] = "write"
    /\ file' = [kind |-> "list", ts |-> rtimestamps[p]]
    /\ rpc' = [rpc EXCEPT ![p] = "passed"]
    /\ events' = Append(events, <<p, "write">>)
    /\ UNCHANGED <<file0, clock, pc, args, dois, reports, trace, slept, outcome, exitCode>>
    /\ UNCHANGED <<rwake, rnow, rtimestamps>>
    /\ UNCHANGED <<httpVars, aggVars, doiVars, renderVars, seqVars>>

NextRace ==
    \E p \in Procs :
        \/ race_check(p)
        \/ race_read(p)
        \/ race_write(p)

IdleLedger == IdleSeq /\ IdleRace

IdleExt == IdleDoi /\ IdleRender /\ IdleLedger

Init == InitMain /\ IdleHttp /\ IdleAgg /\ IdleExt

Next == NextMain

Spec == Init /\ [][Next]_vars

HttpInit == InitHttp /\ IdleMain /\ IdleAgg /\ IdleExt

SpecHttp == HttpInit /\ [][NextHttp]_vars

AggInit == InitAgg /\ IdleMain /\ IdleHttp /\ IdleExt

SpecAgg == AggInit /\ [][NextAgg]_vars

DoiInit == InitDoi /\ IdleMain /\ IdleHttp /\ IdleAgg /\ IdleRender /\ IdleLedger

RenderInit == InitRender /\ IdleMain /\ IdleHttp /\ IdleAgg /\ IdleDoi /\ IdleLedger

SeqInit == InitSeq /\ IdleHttp /\ IdleAgg /\ IdleDoi /\ IdleRender /\ IdleRace

SpecSeq == SeqInit /\ [][NextSeq]_vars

RaceInit == InitRace /\ IdleHttp /\ IdleAgg /\ IdleDoi /\ IdleRender /\ IdleSeq

SpecRace == RaceInit /\ [][NextRace]_vars

SpecRender == RenderInit /\ [][NextRender]_vars

SpecDoi == DoiInit /\ [][NextDoi]_vars

\* ================================================================== claims
\* What check_rate_limit bound `timestamps` to after pruning (it reads the
\* clock at T0 and the file as the invocation found it).
GatePruned == Prune(LoadTimestamps(file0), T0)

GateRan == "check_rate_limit" \in Range(trace)

\* record_request ran and wrote the ledger.
Recorded == "record_request" \in Range(trace) /\ outcome # "ledger_error"

\* C1 (as claimed): whenever check_rate_limit ends the invocation on the
\* hourly ceiling it has not slept first, whatever the age of the newest
\* timestamp.
C1_QuotaExitWithoutSleep == outcome = "quota" => slept = 0

\* C2: with a non-empty pruned ledger below the ceiling, check_rate_limit
\* sleeps exactly MIN_INTERVAL_SECONDS minus the age of the newest timestamp
\* when that age is below MIN_INTERVAL_SECONDS and not at all otherwise, and
\* the timestamp record_request then appends is at least
\* MIN_INTERVAL_SECONDS later than every timestamp the ledger held.
C2_IntervalRespected ==
    (GateRan /\ GatePruned # <<>> /\ Len(GatePruned) < MAX_REQUESTS_PER_HOUR) =>
        /\ \E newest \in Range(GatePruned) :
             /\ \A ts \in Range(GatePruned) : ts <= newest
             /\ slept = IF T0 - newest < MIN_INTERVAL_SECONDS
                        THEN MIN_INTERVAL_SECONDS - (T0 - newest)
                        ELSE 0
        /\ Recorded =>
             \A k \in 1..Len(file0.ts) :
                 Last(file.ts) - file0.ts[k] >= MIN_INTERVAL_SECONDS

\* The spec's example: one timestamp 2 seconds old, a 3 second sleep, and
\* the request recorded.
C2_Witness == Recorded /\ file0.ts = <<T0 - 2>> /\ slept = 3 /\ Len(file.ts) = 2

\* C3: when the gate finds the ceiling reached the invocation ends with no
\* aggregation pass and the ledger file exactly as it was; the file changes
\* only by record_request appending one timestamp after the gate succeeded.
C3_QuotaFailureChangesNothing ==
    /\ outcome = "quota" =>
          /\ "aggregate_paper_data" \notin Range(trace)
          /\ "record_request" \notin Range(trace)
          /\ reports = <<>>
          /\ file = file0
    /\ file # file0 =>
          /\ GateRan
          /\ Len(GatePruned) < MAX_REQUESTS_PER_HOUR
          /\ Recorded
          /\ file.kind = "list"
          /\ Len(file.ts) >= 1
          /\ \A k \in 1..(Len(file.ts) - 1) : file.ts[k] \in Range(LoadTimestamps(file0))
          /\ Last(file.ts) >= T0

C3_Witness ==
    /\ outcome = "quota"
    /\ Len(file0.ts) >= MAX_REQUESTS_PER_HOUR
    /\ "search_crossref" \in Range(trace)

\* C4 (as claimed): in every invocation the gate runs exactly once, and before
\* any source fetcher is called, search_crossref included.
C4_GateOnceBeforeAnyFetch ==
    /\ \A k \in 1..Len(trace) :
          trace[k] \in {"search_crossref", "aggregate_paper_data"} =>
              \E j \in 1..(k - 1) : trace[j] = "check_rate_limit"
    /\ pc = "ended" => Count(trace, "check_rate_limit") = 1

\* C8 (as claimed): exit code 1 when no identifier is resolved and when the
\* quota is exceeded, 0 in every other case in which the invocation ends.
C8_ExitCodes ==
    pc = "ended" =>
        exitCode = IF outcome \in {"no_results", "no_dois", "quota"} THEN 1 ELSE 0

\* First position of identifier d in the list ds.
FirstIndex(ds, d) == CHOOSE k \in 1..Len(ds) : ds[k] = d /\ \A j \in 1..(k - 1) : ds[j] # d

\* C9: one aggregation pass and one report per distinct resolved identifier,
\* identifiers compared case-sensitively, in the order of first occurrence.
C9_OnePassPerDistinctIdentifier ==
    LET r == Resolved(args) IN
    /\ \A i \in 1..Len(reports) : \A j \in 1..Len(reports) :
          i < j => /\ reports[i] # reports[j]
                   /\ FirstIndex(r, reports[i]) < FirstIndex(r, reports[j])
    /\ Range(reports) \subseteq Range(r)
    /\ outcome = "ok" =>
          /\ Range(reports) = Range(r)
          /\ Count(trace, "aggregate_paper_data") = Cardinality(Range(r))

C9_Witness ==
    /\ outcome = "ok"
    /\ Resolved(args) = <<"10.1/a", "10.1/A", "10.1/a">>
    /\ reports = <<"10.1/a", "10.1/A">>

\* C10 (as claimed, the ledger half): whatever the ledger file holds (missing,
\* unreadable, invalid JSON, JSON of an unexpected shape) the gate treats it
\* as empty and the invocation does not die of it.
C10_CorruptLedgerNeverFatal ==
    file0.kind \in CorruptKinds => outcome # "ledger_error"

\* ------------------------------------------------------------ _get / _post
Retried(i) == ~(i = Len(hlog) /\ hpc = "returned")

\* C5 (as claimed): a 429 is retried after a randomized backoff until the
\* budget is used up; any other non-2xx response and any exception is retried
\* exactly once after the fixed short sleep, after that the call returns None.
C5_OtherFailuresRetriedOnce ==
    \A i \in 1..Len(hlog) :
        LET e == hlog[i]
            earlier == \E j \in 1..(i - 1) : hlog[j].resp \in Exceptions \cup {"other"}
        IN /\ (e.resp = "429" /\ i <= retries) =>
                  e.sleep \in BackoffMin..BackoffMax /\ Retried(i)
           /\ (e.resp \in Exceptions \cup {"other"} /\ ~earlier) =>
                  e.sleep = RetrySleep /\ Retried(i)
           /\ (e.resp \in Exceptions \cup {"other"} /\ earlier) =>
                  e.sleep = 0 /\ ~Retried(i) /\ hresult = None

\* C5 (amended): a 429 is retried after a randomized backoff until the budget
\* is used up; an exception (transport, body parsing) is retried after the
\* fixed short sleep, likewise until the budget is used up; any other non-2xx
\* response is not retried: the call returns None at once; a call that ends
\* on anything but a parsed 2xx body returns None.
C5_RetryPolicy ==
    /\ Len(hlog) <= retries + 1
    /\ \A i \in 1..Len(hlog) :
        LET e == hlog[i] IN
        /\ e.resp = "ok" => e.sleep = 0 /\ ~Retried(i) /\ hresult = "json"
        /\ e.resp = "other" => e.sleep = 0 /\ ~Retried(i) /\ hresult = None
        /\ e.resp = "429" =>
              IF i <= retries
              THEN e.sleep \in BackoffMin..BackoffMax /\ Retried(i)
              ELSE e.sleep = 0 /\ ~Retried(i) /\ hresult = None
        /\ e.resp \in Exceptions =>
              IF i <= retries
              THEN e.sleep = RetrySleep /\ Retried(i)
              ELSE e.sleep = 0 /\ ~Retried(i) /\ hresult = None

C5_Witness ==
    /\ hpc = "returned"
    /\ method = "post"
    /\ Len(hlog) = 3
    /\ hlog[1].resp = "429"
    /\ hlog[2].resp = "transport_error"
    /\ hlog[3].resp = "other"
    /\ hresult = None

\* -------------------------------------------------------------- aggregator
\* C6 (as claimed): whatever each outbound call yields, a body of an
\* unexpected schema included, no fetcher raises and aggregate_paper_data
\* returns a report.
C6_NoSourceFailurePropagates == aresult # "raised"

FetcherOrder ==
    <<"fetch_crossref", "fetch_openalex", "fetch_semantic_scholar", "fetch_pubmed_id",
      "fetch_pubmed_pmc", "fetch_europepmc", "fetch_pubpeer", "fetch_hypothesis_count",
      "fetch_recommendations">>

\* C7 (as claimed): the fetchers are called in the fixed order and a
\* _polite_delay lies between every two consecutive fetcher calls, the
\* PubMed id to PubMed Central step included.
C7_DelayBetweenEveryTwoFetches ==
    /\ \A i \in 1..Len(atrace) : \A j \in 1..Len(atrace) :
          (i < j /\ atrace[i] \in Range(FetcherOrder) /\ atrace[j] \in Range(FetcherOrder)) =>
              FirstIndex(FetcherOrder, atrace[i]) < FirstIndex(FetcherOrder, atrace[j])
    /\ \A i \in 1..(Len(atrace) - 1) :
          (atrace[i] \in Range(FetcherOrder) /\ atrace[i + 1] \in Range(FetcherOrder)) => FALSE

\* C14: fetch_pubmed_pmc is called only after fetch_pubmed_id returned an id
\* and fetch_recommendations only after fetch_semantic_scholar returned a
\* record with a paper id; so a report with a pmc_id has a pmid and a report
\* with recommendations has a semantic_scholar source.
C14_ChainedLookups ==
    /\ "fetch_pubmed_pmc" \in Range(atrace) => report.pmid = "pmid"
    /\ "fetch_recommendations" \in Range(atrace) =>
          fetched["semantic_scholar"] = "good" /\ ss = "good"
    /\ report.pmc_id # "absent" => report.pmid # "absent"
    /\ report.recommendations # "absent" => report.sources["semantic_scholar"] # "absent"

C14_Witness ==
    /\ aresult = "returned"
    /\ report.pmc_id = "pmcid"
    /\ report.recommendations = "recs"

\* C15: a source name is a key of report["sources"] exactly when its fetcher
\* returned a record (a non-empty value) during the pass, the value stored is
\* the one returned, and no key maps to None or to an empty value.
C15_SourcesKeysAreRecords ==
    \A n \in SourceNames :
        /\ report.sources[n] # "absent" <=> fetched[n] \notin {"uncalled", "None", "empty"}
        /\ report.sources[n] # "absent" => report.sources[n] = fetched[n]
        /\ report.sources[n] \notin {"None", "empty"}

C15_Witness ==
    /\ aresult = "returned"
    /\ fetched["crossref"] = "None"
    /\ report.sources["crossref"] = "absent"
    /\ fetched["pubpeer"] = "None"
    /\ report.sources["openalex"] = "good"
    /\ report.sources["europepmc"] = "record"

\* C13 (as claimed): extract_doi is idempotent: whenever extract_doi(s) is an
\* identifier d, extract_doi(d) is d again.
C13_ExtractIdempotent == dpc = "twice" => doi2 = doi1


\* --------------------------------------------------------- renderer claims
Rendered == mresult = "returned"

TitleFields == {"cr.title", "oa.title", "ss.title", "epmc.title"}

\* A report with only an identifier and a title.
OnlyTitle(r) ==
    /\ \E f \in TitleFields : r[f] = "T"
    /\ \A f \in Fields : Has(r, f) => f \in TitleFields /\ r[f] = "T"

NonBlank(ls) == SelectSeq(ls, LAMBDA l : l # "")

IsTitle(l) == l \in {"# cr title", "# ss title", "# oa title", "# epmc title"}

\* C11: to_markdown applied to a report that has only an identifier and a
\* title produces a header line, a DOI link line, a separator and the footer
\* and nothing else; in every document, the citation table header is followed
\* by at least one row (no table header is emitted without content).
C11_MinimalReportHasNoEmptySection ==
    Rendered =>
        /\ OnlyTitle(rin) =>
              /\ Len(NonBlank(lines)) >= 4
              /\ IsTitle(NonBlank(lines)[1])
              /\ NonBlank(lines)[2] = "**DOI:**"
              /\ \A i \in 3..Len(NonBlank(lines)) :
                    NonBlank(lines)[i] \in {"---", "*Generated by Lazy Scholar CLI*"}
        /\ \A i \in DOMAIN lines :
              lines[i] = "|--------|-----------|-------|" =>
                  i < Len(lines) /\ lines[i + 1] # ""

\* The names of each source, in the order of the reconciliation chain.
NamesBySource(r) ==
    << Named(Entries(r["cr.author"], "cr author 1", "cr author 2")),
       Named(Entries(r["oa.authorships"], "oa author 1", "oa author 2")),
       Named(Entries(r["ss.authors"], "ss author 1", "ss author 2")),
       IF Has(r, "epmc.authorString") THEN <<"epmc authors">> ELSE <<>> >>

FirstWithAName(r) ==
    LET yielding == {k \in 1..4 : NamesBySource(r)[k] # <<>>}
    IN IF yielding = {} THEN <<>> ELSE NamesBySource(r)[SetMin(yielding)]

AuthorsExtracted == mpc \in {"journal", "date", "body", "oa_links", "notices", "tail", "done"}

\* C12: _extract_authors returns the whole author list of the first source,
\* in the order CrossRef, OpenAlex, Semantic Scholar, Europe PMC, that yields
\* at least one non-empty name; a present source that yields no name is
\* skipped.
C12_FirstSourceWithANameWins ==
    AuthorsExtracted => authors = FirstWithAName(rin)

\* C16: no reconciler fails on a present source that lacks a sub-key, and
\* with every source absent each reconciler returns empty/None.
C16_ReconcilersNeverFail ==
    /\ mresult # "raised"
    /\ (mpc = "done" /\ rin = EmptyReport) =>
          /\ authors = <<>>
          /\ journal = <<>>
          /\ date = None
          /\ oa_urls = <<>>
          /\ notices = {}

\* ----------------------------------------------------------- ledger claims
\* The invocations that passed the gate so far, by the timestamp they
\* recorded: those of the ledger found at the start, then those of this
\* sequence.
AllPasses == passes \o (IF pc = "process" THEN <<Last(file.ts)>> ELSE <<>>)

\* The passes inside the window (t - 3600, t].
InWindow(ps, t) == {k \in DOMAIN ps : t - window < ps[k] /\ ps[k] <= t}

\* C18: with invocations that do not overlap, at most MAX_REQUESTS_PER_HOUR
\* of them pass the gate within any window (t - 3600, t] (the count is
\* largest for a window that ends at a pass), and after every record_request
\* the ledger holds at most MAX_REQUESTS_PER_HOUR timestamps, each less than
\* 3600 seconds older than the one just appended.
C18_SequentialQuotaHolds ==
    /\ \A i \in DOMAIN AllPasses :
          Cardinality(InWindow(AllPasses, AllPasses[i])) <= MAX_REQUESTS_PER_HOUR
    /\ (runs > 0 /\ pc = "process") =>
          /\ Len(file.ts) <= MAX_REQUESTS_PER_HOUR
          /\ Last(file.ts) = clock
          /\ \A k \in DOMAIN file.ts : Last(file.ts) - file.ts[k] < window

\* An invocation of the sequence filled the window, the next one was refused.
C18_Witness ==
    /\ runs = MaxRuns
    /\ pc = "ended"
    /\ outcome = "quota"
    /\ Len(passes) > Len(file0.ts)
    /\ Cardinality(InWindow(passes, Last(passes))) = MAX_REQUESTS_PER_HOUR

Done(p, step) == \E k \in DOMAIN events : events[k] = <<p, step>>

Pos(p, step) == CHOOSE k \in DOMAIN events : events[k] = <<p, step>>

Passed == {p \in Procs : rpc[p] = "passed"}

LastWriter == CHOOSE p \in Passed : \A q \in Passed : Pos(q, "write") <= Pos(p, "write")

\* The timestamp that p recorded is missing from the persisted ledger.
Lost(p) ==
    /\ p \in Passed
    /\ Count(LoadTimestamps(file), rnow[p]) < Cardinality({q \in Passed : rnow[q] = rnow[p]})

\* The passes within the hour that ends at the latest one: those the ledger
\* held at the start and those of the two invocations.
Admitted ==
    LET t == SetMax({rnow[p] : p \in Passed})
    IN Cardinality(InWindow(file0.ts, t)) + Cardinality(Passed)

\* C17: two concurrent invocations on one ledger file.  The last write is
\* what persists; with both past the gate, a timestamp is lost exactly when
\* the last writer read the file before the other one wrote it; more than
\* MAX_REQUESTS_PER_HOUR passes within the hour happen only when each
\* invocation's check read the file before either wrote it, and then exceed
\* the ceiling by one.  That both are reachable is C17_Witness.
C17_RaceOutcomes ==
    /\ Passed # {} => Last(file.ts) = rnow[LastWriter]
    /\ Passed = Procs =>
          ((\E p \in Procs : Lost(p))
             <=> \E p \in Procs : p # LastWriter /\ Pos(LastWriter, "read") < Pos(p, "write"))
    /\ (Passed # {} /\ Admitted > MAX_REQUESTS_PER_HOUR) =>
          /\ Passed = Procs
          /\ Admitted = MAX_REQUESTS_PER_HOUR + 1
          /\ \A p, q \in Procs : Pos(p, "check") < Pos(q, "write")

\* Both invocations passed, one timestamp is lost from the ledger, and the
\* hour holds more passes than the ceiling.
C17_Witness ==
    /\ Passed = Procs
    /\ \E p \in Procs : Lost(p)
    /\ Admitted > MAX_REQUESTS_PER_HOUR
====
